---- MODULE Spec2Model ----
(***************************************************************************)
(* Role-based access control of DocuCTRL: the permission catalog, the      *)
(* resolver (app/rbac.py) and the request handlers that grant and revoke   *)
(* roles and direct permissions (app/main.py), over the relations of       *)
(* app/models.py.                                                          *)
(*                                                                         *)
(* Rows are modelled by their keys: a Role or Permission row by its unique *)
(* name, a UserRole row by <<user_id, role name, project_id>>, a           *)
(* UserPermission row by <<user_id, permission name, project_id>>.         *)
(* The permission catalog is cut down to the permissions the modelled      *)
(* handlers consult plus two document permissions; each default role       *)
(* keeps the part of its bundle that lies in this cut.                     *)
(***************************************************************************)
EXTENDS Integers, Sequences, FiniteSets, TLC

\* ------------------------------------------------------------------ bounds
MaxUsers == 3
MaxProjects == 2
MaxRequests == 3
MaxThreads == 2

\* --------------------------------------------------------------- constants
\* project_id None (the global scope); project ids start at 1.
NoProject == 0
\* role name None.
NoRole == "<none>"
\* the user ADMIN_EMAIL names.
AdminUser == 1

ADMIN_ALL == "admin:all"
ROLE_ASSIGN == "role:assign"
USER_MANAGE == "user:manage"
USER_CREATE == "user:create"
PROJECT_CREATE == "project:create"
DOCUMENT_READ == "document:read"
DOCUMENT_UPLOAD == "document:upload"

\* The members of class Permissions kept in the model.
PermissionNames ==
    {ADMIN_ALL, ROLE_ASSIGN, USER_MANAGE, USER_CREATE, PROJECT_CREATE,
     DOCUMENT_READ, DOCUMENT_UPLOAD}

ROLE_HIERARCHY == <<"admin", "manager", "uploader", "viewer">>

\* DEFAULT_ROLES: role name -> permission names.
DEFAULT_ROLES ==
    [admin |-> PermissionNames,
     manager |-> {DOCUMENT_UPLOAD, DOCUMENT_READ, PROJECT_CREATE, ROLE_ASSIGN},
     uploader |-> {DOCUMENT_UPLOAD, DOCUMENT_READ},
     viewer |-> {DOCUMENT_READ}]

DefaultRoleNames == DOMAIN DEFAULT_ROLES

\* A Role row whose name is outside ROLE_HIERARCHY, and its bundle.
CustomRole == "auditor"
CustomRolePermissions == {DOCUMENT_READ}

UserIds == 1..MaxUsers
ProjectIds == 1..MaxProjects
ThreadIds == 1..MaxThreads

\* ------------------------------------------------------------------ inputs
\* Role names a request may carry: the stored ones and one that is no row.
RoleInputs == DefaultRoleNames \cup {CustomRole, "ghost"}
\* Permission lists a request may carry ("bogus:perm" is no Permission row).
RequestedInputs ==
    {{}, {ADMIN_ALL}, {USER_MANAGE}, {USER_CREATE}, {DOCUMENT_READ},
     {DOCUMENT_READ, DOCUMENT_UPLOAD}, {DOCUMENT_READ, "bogus:perm"}}
\* What one project assignment of a registration may ask for: a role name
\* (or none) and a permission list (or none).
AssignmentChoices ==
    {<<"manager", {}>>, <<"viewer", {USER_MANAGE}>>, <<"ghost", {DOCUMENT_READ}>>,
     <<NoRole, {}>>}
AssignmentInputs ==
    {[project_id |-> p, role_name |-> c[1], permissions |-> c[2]] :
        p \in ProjectIds, c \in AssignmentChoices}
\* The assignment lists of a registration: none, one or two assignments.
AssignmentLists ==
    {<<>>} \cup {<<a>> : a \in AssignmentInputs}
           \cup {<<a, b>> : a \in AssignmentInputs, b \in AssignmentInputs}

VARIABLES
    users,          \* User rows (ids)
    projects,       \* Project rows (ids)
    roles,          \* Role rows (names)
    permissions,    \* Permission rows (names)
    rolePerms,      \* RolePermission rows <<role, permission>>
    userRoles,      \* UserRole rows <<user, role, project>>
    userPerms,      \* UserPermission rows <<user, permission, project>>
    userProjects,   \* UserProjectAssignment rows <<user, project>>
    threads,        \* requests in flight, one per worker thread
    last,           \* the response of the request that completed last
    nreq            \* requests served

store == <<users, projects, roles, permissions, rolePerms, userRoles, userPerms, userProjects>>
vars == <<users, projects, roles, permissions, rolePerms, userRoles, userPerms, userProjects,
          threads, last, nreq>>

\* ---------------------------------------------------------------- catalog
\* GetRoleRank that counts the positions of the hierarchy from one.
GetRoleRank_OneBased(role_name) ==
    IF role_name = NoRole \/ role_name = ""
    THEN Len(ROLE_HIERARCHY)
    ELSE IF \E i \in 1..Len(ROLE_HIERARCHY) : ROLE_HIERARCHY[i] = role_name
         THEN CHOOSE i \in 1..Len(ROLE_HIERARCHY) : ROLE_HIERARCHY[i] = role_name
         ELSE Len(ROLE_HIERARCHY)

GetRoleRank(role_name) ==
    IF role_name = NoRole \/ role_name = ""
    THEN Len(ROLE_HIERARCHY)
    ELSE IF \E i \in 1..Len(ROLE_HIERARCHY) : ROLE_HIERARCHY[i] = role_name
         THEN (CHOOSE i \in 1..Len(ROLE_HIERARCHY) : ROLE_HIERARCHY[i] = role_name) - 1
         ELSE Len(ROLE_HIERARCHY)

\* --------------------------------------------------------------- resolver
\* GetUserRoles that also returns the roles assigned with the global scope.
GetUserRoles_GlobalFallback(user_id, project_id) ==
    {r \in roles : <<user_id, r, project_id>> \in userRoles
                    \/ <<user_id, r, NoProject>> \in userRoles}

GetUserRoles(user_id, project_id) ==
    IF project_id = NoProject
    THEN {}
    ELSE {r \in roles : <<user_id, r, project_id>> \in userRoles}

\* role.permissions -> role_perm.permission.name
RolePermissionNames(role) ==
    {p \in permissions : <<role, p>> \in rolePerms}

\* GetUserPermissions without the direct grants.
GetUserPermissions_RolesOnly(user_id, project_id) ==
    UNION {RolePermissionNames(r) : r \in GetUserRoles(user_id, project_id)}

\* GetUserPermissions answered from a copy of the rows taken at start-up.
GetUserPermissions_StartupSnapshot(user_id, project_id) ==
    UNION {RolePermissionNames(r) :
              r \in {x \in roles : <<user_id, x, project_id>> \in {<<AdminUser, "admin", 1>>}}}
    \cup {p \in permissions : <<user_id, p, project_id>> \in {<<AdminUser, ADMIN_ALL, 1>>}}

GetUserPermissions(user_id, project_id) ==
    LET user_roles == GetUserRoles(user_id, project_id)
        from_roles == UNION {RolePermissionNames(r) : r \in user_roles}
        direct_perms ==
            IF project_id # NoProject
            THEN {p \in permissions : <<user_id, p, project_id>> \in userPerms}
            ELSE {}
    IN  from_roles \cup direct_perms

\* HasPermission without the admin:all short-circuit.
HasPermission_NoAdminAll(user_id, permission, project_id) ==
    permission \in GetUserPermissions(user_id, project_id)

HasPermission(user_id, permission, project_id) ==
    LET user_perms == GetUserPermissions(user_id, project_id)
    IN  IF ADMIN_ALL \in user_perms THEN TRUE ELSE permission \in user_perms

\* The loop of get_user_highest_role over the roles still to visit.
RECURSIVE HighestRoleLoop(_, _, _)
HighestRoleLoop(todo, best_role, best_rank) ==
    IF todo = {}
    THEN best_role
    ELSE LET role == CHOOSE r \in todo : TRUE
             rank == GetRoleRank(role)
         IN  IF rank < best_rank
             THEN HighestRoleLoop(todo \ {role}, role, rank)
             ELSE HighestRoleLoop(todo \ {role}, best_role, best_rank)

GetUserHighestRole(user_id, project_id) ==
    LET user_roles == GetUserRoles(user_id, project_id)
    IN  IF user_roles = {}
        THEN NoRole
        ELSE HighestRoleLoop(user_roles, NoRole, Len(ROLE_HIERARCHY))

\* permission_checker of require_all_permissions, for the scope it resolved.
RequireAllPermissions(required, user_id, project_id) ==
    LET user_perms == GetUserPermissions(user_id, project_id)
        missing == {p \in required : p \notin user_perms}
    IN  IF ADMIN_ALL \in user_perms
        THEN TRUE
        ELSE missing = {}

\* RequirePermission that asks for every listed permission.
RequirePermission_AllRequired(required, user_id, project_id) ==
    LET user_perms == GetUserPermissions(user_id, project_id)
    IN  IF ADMIN_ALL \in user_perms
        THEN TRUE
        ELSE \A perm \in required : perm \in user_perms

\* permission_checker of require_permission, for the scope it resolved.
RequirePermission(required, user_id, project_id) ==
    LET user_perms == GetUserPermissions(user_id, project_id)
    IN  IF ADMIN_ALL \in user_perms
        THEN TRUE
        ELSE \E perm \in required : perm \in user_perms

\* -------------------------------------------------------- scope of a gate
\* request.path_params / request.query_params / the JSON body, each read with
\* .get("project_id"): the key is absent, or it holds a raw value.
Absent == "<absent>"
RawInputs == {Absent, "", "1", "2", "abc"}
MethodInputs == {"GET", "POST", "DELETE"}

\* int(raw) where it returns; it raises ValueError on every other raw value.
IntOf == [raw \in {"1", "2"} |-> IF raw = "1" THEN 1 ELSE 2]

\* What project_id is bound to once a gate has read its scope.
NoneScope == [kind |-> "none", id |-> NoProject, raw |-> Absent]
IntScope(n) == [kind |-> "int", id |-> n, raw |-> Absent]
RawScope(raw) == [kind |-> "raw", id |-> NoProject, raw |-> raw]

\* project_id = source.get("project_id"); if project_id: project_id =
\* int(project_id), with ValueError and TypeError swallowed.
ReadSource(raw) ==
    IF raw = Absent
    THEN NoneScope
    ELSE IF raw = ""
    THEN RawScope(raw)
    ELSE IF raw \in DOMAIN IntOf
    THEN IntScope(IntOf[raw])
    ELSE RawScope(raw)

\* The scope permission_checker of require_permission resolves.
RequirePermissionScope(method, path, query, body) ==
    LET from_path == ReadSource(path)
        from_query == IF from_path = NoneScope THEN ReadSource(query) ELSE from_path
    IN  IF from_query = NoneScope /\ method \in {"POST", "PUT", "PATCH"}
        THEN ReadSource(body)
        ELSE from_query

\* The scope permission_checker of require_all_permissions resolves.
RequireAllPermissionsScope(method, path, query, body) ==
    LET from_path == ReadSource(path)
    IN  IF from_path = NoneScope THEN ReadSource(query) ELSE from_path

\* -------------------------------------------------------------- responses
Resp(status, detail) == [status |-> status, detail |-> detail, names |-> {}]
\* no exception raised so far
Pass == Resp(0, "")

Completed(op, resp) ==
    [op |-> op, status |-> resp.status, detail |-> resp.detail, names |-> resp.names]


\* A worker thread that serves no request.
Idle ==
    [pc |-> "idle", op |-> "none", actor |-> 0, project_id |-> 0, user_id |-> 0,
     role_name |-> NoRole, requested |-> {}]

\* AssignAuthority with the rank comparison left out.
AssignAuthority_NoRankCheck(actor, project_id, user_id, role_name) ==
    IF ~RequirePermission({ROLE_ASSIGN}, actor, project_id)
    THEN Resp(403, "Permission denied. Required: role:assign")
    ELSE IF project_id \notin projects
    THEN Resp(404, "Project not found")
    ELSE IF user_id \notin users
    THEN Resp(404, "User not found")
    ELSE IF GetUserHighestRole(actor, project_id) = NoRole
    THEN Resp(403, "Cannot assign role without a project role")
    ELSE Pass

\* AssignAuthority that lets the actor assign the role one rank above its own.
AssignAuthority_RankOffByOne(actor, project_id, user_id, role_name) ==
    IF ~RequirePermission({ROLE_ASSIGN}, actor, project_id)
    THEN Resp(403, "Permission denied. Required: role:assign")
    ELSE IF project_id \notin projects
    THEN Resp(404, "Project not found")
    ELSE IF user_id \notin users
    THEN Resp(404, "User not found")
    ELSE LET current_role == GetUserHighestRole(actor, project_id)
             current_rank == GetRoleRank(current_role)
             target_rank == GetRoleRank(role_name)
             current_perms == GetUserPermissions(actor, project_id)
         IN  IF current_role = NoRole
             THEN Resp(403, "Cannot assign role without a project role")
             ELSE IF target_rank + 1 < current_rank /\ ADMIN_ALL \notin current_perms
             THEN Resp(403, "Cannot assign a higher role")
             ELSE Pass

\* ------------------------------------------- POST .../users/{id}/roles
\* assign_user_role_to_project up to the call of assign_role_to_user: the
\* require_role_assign gate, then the handler's own checks.
AssignAuthority(actor, project_id, user_id, role_name) ==
    IF ~RequirePermission({ROLE_ASSIGN}, actor, project_id)
    THEN Resp(403, "Permission denied. Required: role:assign")
    ELSE IF project_id \notin projects
    THEN Resp(404, "Project not found")
    ELSE IF user_id \notin users
    THEN Resp(404, "User not found")
    ELSE LET current_role == GetUserHighestRole(actor, project_id)
             current_rank == GetRoleRank(current_role)
             target_rank == GetRoleRank(role_name)
             current_perms == GetUserPermissions(actor, project_id)
         IN  IF current_role = NoRole
             THEN Resp(403, "Cannot assign role without a project role")
             ELSE IF target_rank < current_rank /\ ADMIN_ALL \notin current_perms
             THEN Resp(403, "Cannot assign a higher role")
             ELSE Pass

\* AssignRoleToUserChecks that leaves the existence checks to the insert.
AssignRoleToUserChecks_NoExistenceCheck(user_id, role_name, project_id) ==
    IF project_id = NoProject
    THEN Resp(400, "project_id is required for role assignment")
    ELSE IF role_name \notin roles
    THEN Resp(404, "Role not found")
    ELSE Pass

\* AssignRoleToUserChecks that looks only for a row with the same role.
AssignRoleToUserChecks_SameRoleOnly(user_id, role_name, project_id) ==
    IF project_id = NoProject
    THEN Resp(400, "project_id is required for role assignment")
    ELSE IF role_name \notin roles
    THEN Resp(404, "Role not found")
    ELSE IF <<user_id, role_name, project_id>> \in userRoles
    THEN Resp(400, "User already has role")
    ELSE Pass

\* AssignRoleToUserChecks that accepts a call with no project scope.
AssignRoleToUserChecks_NoScopeCheck(user_id, role_name, project_id) ==
    IF role_name \notin roles
    THEN Resp(404, "Role not found")
    ELSE IF \E row \in userRoles : row[1] = user_id /\ row[3] = project_id
    THEN Resp(400, "User already has a role for this project")
    ELSE IF <<user_id, role_name, project_id>> \in userRoles
    THEN Resp(400, "User already has role")
    ELSE Pass

\* assign_role_to_user up to the insert: the lookups and the existence checks.
AssignRoleToUserChecks(user_id, role_name, project_id) ==
    IF project_id = NoProject
    THEN Resp(400, "project_id is required for role assignment")
    ELSE IF role_name \notin roles
    THEN Resp(404, "Role not found")
    ELSE IF \E row \in userRoles : row[1] = user_id /\ row[3] = project_id
    THEN Resp(400, "User already has a role for this project")
    ELSE IF <<user_id, role_name, project_id>> \in userRoles
    THEN Resp(400, "User already has role")
    ELSE Pass

\* db.add(user_role); db.commit(): uix_user_role_project rejects a second row
\* with the same (user_id, role_id, project_id); nothing catches the error.
AssignRoleInsert(user_id, role_name, project_id) ==
    IF <<user_id, role_name, project_id>> \in userRoles
    THEN Resp(500, "IntegrityError uix_user_role_project")
    ELSE Resp(200, "assigned")

\* The UserRole rows after the insert was tried with response resp.
UserRolesAfterAssign(resp, user_id, role_name, project_id) ==
    IF resp.status = 200
    THEN userRoles \cup {<<user_id, role_name, project_id>>}
    ELSE userRoles

\* AssignResponse with assign_role_to_user's lookups run before the
\* handler's authority checks.
AssignResponse_ExistenceFirst(actor, project_id, user_id, role_name) ==
    LET checks == AssignRoleToUserChecks(user_id, role_name, project_id)
        authority == IF checks = Pass
                     THEN AssignAuthority(actor, project_id, user_id, role_name)
                     ELSE checks
    IN  IF authority = Pass
        THEN AssignRoleInsert(user_id, role_name, project_id)
        ELSE authority

\* The response of the whole handler when nothing interleaves.
AssignResponse(actor, project_id, user_id, role_name) ==
    LET authority == AssignAuthority(actor, project_id, user_id, role_name)
        checks == IF authority = Pass
                  THEN AssignRoleToUserChecks(user_id, role_name, project_id)
                  ELSE authority
    IN  IF checks = Pass
        THEN AssignRoleInsert(user_id, role_name, project_id)
        ELSE checks

AssignUserRoleToProject(actor, project_id, user_id, role_name) ==
    LET resp == AssignResponse(actor, project_id, user_id, role_name)
    IN  /\ nreq < MaxRequests
        /\ userRoles' = UserRolesAfterAssign(resp, user_id, role_name, project_id)
        /\ last' = Completed("assign_role", resp)
        /\ nreq' = nreq + 1
        /\ UNCHANGED <<users, projects, roles, permissions, rolePerms, userPerms,
                       userProjects, threads>>

\* ---------------------------------- DELETE .../users/{id}/roles/{role_name}
\* RemoveRoleFromUser that matches any role the user holds for the project.
RemoveRoleFromUser_AnyRole(user_id, role_name, project_id) ==
    IF project_id = NoProject
    THEN FALSE
    ELSE \E row \in userRoles : row[1] = user_id /\ row[3] = project_id

RemoveRoleFromUser(user_id, role_name, project_id) ==
    IF project_id = NoProject
    THEN FALSE
    ELSE IF role_name \notin roles
    THEN FALSE
    ELSE <<user_id, role_name, project_id>> \in userRoles

\* RemoveResponse with the rank comparison of the assignment handler.
RemoveResponse_RankChecked(actor, project_id, user_id, role_name) ==
    IF ~RequirePermission({ROLE_ASSIGN}, actor, project_id)
    THEN Resp(403, "Permission denied. Required: role:assign")
    ELSE IF project_id \notin projects
    THEN Resp(404, "Project not found")
    ELSE IF /\ GetRoleRank(role_name) < GetRoleRank(GetUserHighestRole(actor, project_id))
            /\ ADMIN_ALL \notin GetUserPermissions(actor, project_id)
    THEN Resp(403, "Cannot remove a higher role")
    ELSE IF ~RemoveRoleFromUser(user_id, role_name, project_id)
    THEN Resp(404, "Role assignment not found")
    ELSE Resp(200, "removed")

RemoveResponse(actor, project_id, user_id, role_name) ==
    IF ~RequirePermission({ROLE_ASSIGN}, actor, project_id)
    THEN Resp(403, "Permission denied. Required: role:assign")
    ELSE IF project_id \notin projects
    THEN Resp(404, "Project not found")
    ELSE IF ~RemoveRoleFromUser(user_id, role_name, project_id)
    THEN Resp(404, "Role assignment not found")
    ELSE Resp(200, "removed")

UserRolesAfterRemove(resp, user_id, role_name, project_id) ==
    IF resp.status = 200
    THEN userRoles \ {<<user_id, role_name, project_id>>}
    ELSE userRoles

RemoveUserRoleFromProject(actor, project_id, user_id, role_name) ==
    LET resp == RemoveResponse(actor, project_id, user_id, role_name)
    IN  /\ nreq < MaxRequests
        /\ userRoles' = UserRolesAfterRemove(resp, user_id, role_name, project_id)
        /\ last' = Completed("remove_role", resp)
        /\ nreq' = nreq + 1
        /\ UNCHANGED <<users, projects, roles, permissions, rolePerms, userPerms,
                       userProjects, threads>>

\* SetPermissionsAuthority with the grant check left out.
SetPermissionsAuthority_NoGrantCheck(actor, project_id, user_id, requested) ==
    IF ~RequirePermission({USER_MANAGE}, actor, project_id)
    THEN Resp(403, "Permission denied. Required: user:manage")
    ELSE IF ~HasPermission(actor, USER_MANAGE, project_id)
    THEN Resp(403, "Permission denied")
    ELSE IF project_id \notin projects
    THEN Resp(404, "Project not found")
    ELSE IF user_id \notin users
    THEN Resp(404, "User not found")
    ELSE Pass

\* SetPermissionsAuthority that also checks the grants the overwrite removes.
SetPermissionsAuthority_RevocationChecked(actor, project_id, user_id, requested) ==
    IF ~RequirePermission({USER_MANAGE}, actor, project_id)
    THEN Resp(403, "Permission denied. Required: user:manage")
    ELSE IF ~HasPermission(actor, USER_MANAGE, project_id)
    THEN Resp(403, "Permission denied")
    ELSE IF project_id \notin projects
    THEN Resp(404, "Project not found")
    ELSE IF user_id \notin users
    THEN Resp(404, "User not found")
    ELSE LET current_perms == GetUserPermissions(actor, project_id)
             held == {p \in permissions : <<user_id, p, project_id>> \in userPerms}
             unauthorized == (requested \cup (held \ requested)) \ current_perms
         IN  IF ADMIN_ALL \notin current_perms /\ unauthorized # {}
             THEN [status |-> 403, detail |-> "Cannot grant permissions",
                   names |-> unauthorized]
             ELSE Pass

\* ------------------------------------ PUT .../users/{id}/permissions
\* set_user_permissions_for_project up to the permission lookup: the
\* require_user_manage gate, the handler's checks and the grant check.
SetPermissionsAuthority(actor, project_id, user_id, requested) ==
    IF ~RequirePermission({USER_MANAGE}, actor, project_id)
    THEN Resp(403, "Permission denied. Required: user:manage")
    ELSE IF ~HasPermission(actor, USER_MANAGE, project_id)
    THEN Resp(403, "Permission denied")
    ELSE IF project_id \notin projects
    THEN Resp(404, "Project not found")
    ELSE IF user_id \notin users
    THEN Resp(404, "User not found")
    ELSE LET current_perms == GetUserPermissions(actor, project_id)
             unauthorized == requested \ current_perms
         IN  IF ADMIN_ALL \notin current_perms /\ unauthorized # {}
             THEN [status |-> 403, detail |-> "Cannot grant permissions",
                   names |-> unauthorized]
             ELSE Pass

\* SetPermissionsWrite that writes the permissions it finds and says nothing
\* of the identifiers it does not find.
SetPermissionsWrite_NoValidation(requested) ==
    Resp(200, "updated")

\* The permission lookup, then the delete, the inserts and the commit.
SetPermissionsWrite(requested) ==
    LET permission_by_name == {p \in permissions : p \in requested}
        missing == requested \ permission_by_name
    IN  IF missing # {}
        THEN [status |-> 400, detail |-> "Unknown permissions", names |-> missing]
        ELSE Resp(200, "updated")

\* UserPermsAfterSet that adds the requested rows and deletes none.
UserPermsAfterSet_Incremental(resp, user_id, project_id, requested) ==
    IF resp.status = 200
    THEN userPerms \cup {<<user_id, p, project_id>> : p \in {q \in permissions : q \in requested}}
    ELSE userPerms

UserPermsAfterSet(resp, user_id, project_id, requested) ==
    IF resp.status = 200
    THEN {row \in userPerms : ~(row[1] = user_id /\ row[3] = project_id)}
         \cup {<<user_id, p, project_id>> : p \in {q \in permissions : q \in requested}}
    ELSE userPerms

SetPermissionsResponse(actor, project_id, user_id, requested) ==
    LET authority == SetPermissionsAuthority(actor, project_id, user_id, requested)
    IN  IF authority = Pass THEN SetPermissionsWrite(requested) ELSE authority

SetUserPermissionsForProject(actor, project_id, user_id, requested) ==
    LET resp == SetPermissionsResponse(actor, project_id, user_id, requested)
    IN  /\ nreq < MaxRequests
        /\ userPerms' = UserPermsAfterSet(resp, user_id, project_id, requested)
        /\ last' = Completed("set_permissions", resp)
        /\ nreq' = nreq + 1
        /\ UNCHANGED <<users, projects, roles, permissions, rolePerms, userRoles,
                       userProjects, threads>>


\* RegisterStep with the rank comparison left out.
RegisterStep_NoRankCheck(actor, new_user, assignment, acc) ==
    LET project_id == assignment.project_id
        role_name == assignment.role_name
        wanted == assignment.permissions
        current_role == GetUserHighestRole(actor, project_id)
        current_perms == GetUserPermissions(actor, project_id)
        missing == wanted \ current_perms
        permission_by_name == {p \in permissions : p \in wanted}
        unknown == wanted \ permission_by_name
        fail(resp) == [acc EXCEPT !.resp = resp]
    IN  IF project_id \in acc.seen
        THEN fail(Resp(400, "Duplicate project assignment is not allowed"))
        ELSE IF ~HasPermission(actor, USER_CREATE, project_id)
        THEN fail(Resp(403, "Permission denied to create user for project"))
        ELSE IF project_id \notin projects
        THEN fail(Resp(404, "Project not found"))
        ELSE IF role_name = NoRole /\ wanted = {}
        THEN fail(Resp(400, "Role or permissions are required for each project assignment"))
        ELSE IF role_name # NoRole /\ current_role = NoRole
        THEN fail(Resp(403, "Cannot assign role without a project role"))
        ELSE IF role_name # NoRole /\ role_name \notin roles
        THEN fail(Resp(404, "Role not found"))
        ELSE IF wanted # {} /\ ADMIN_ALL \notin current_perms /\ missing # {}
        THEN fail([status |-> 403, detail |-> "Cannot grant permissions",
                   names |-> missing])
        ELSE IF wanted # {} /\ unknown # {}
        THEN fail([status |-> 400, detail |-> "Unknown permissions", names |-> unknown])
        ELSE [resp |-> Pass,
              seen |-> acc.seen \cup {project_id},
              upa |-> acc.upa \cup {<<new_user, project_id>>},
              ur |-> acc.ur \cup (IF role_name # NoRole
                                  THEN {<<new_user, role_name, project_id>>}
                                  ELSE {}),
              up |-> acc.up \cup {<<new_user, p, project_id>> : p \in permission_by_name}]

\* ------------------------------------------------ POST /users, /register
\* One pass of the loop over payload.assignments: acc holds the rows added to
\* the session so far and seen_projects; the result has resp = Pass when
\* the pass raised nothing.
RegisterStep(actor, new_user, assignment, acc) ==
    LET project_id == assignment.project_id
        role_name == assignment.role_name
        wanted == assignment.permissions
        current_role == GetUserHighestRole(actor, project_id)
        current_perms == GetUserPermissions(actor, project_id)
        missing == wanted \ current_perms
        permission_by_name == {p \in permissions : p \in wanted}
        unknown == wanted \ permission_by_name
        fail(resp) == [acc EXCEPT !.resp = resp]
    IN  IF project_id \in acc.seen
        THEN fail(Resp(400, "Duplicate project assignment is not allowed"))
        ELSE IF ~HasPermission(actor, USER_CREATE, project_id)
        THEN fail(Resp(403, "Permission denied to create user for project"))
        ELSE IF project_id \notin projects
        THEN fail(Resp(404, "Project not found"))
        ELSE IF role_name = NoRole /\ wanted = {}
        THEN fail(Resp(400, "Role or permissions are required for each project assignment"))
        ELSE IF role_name # NoRole /\ current_role = NoRole
        THEN fail(Resp(403, "Cannot assign role without a project role"))
        ELSE IF /\ role_name # NoRole
                /\ GetRoleRank(role_name) < GetRoleRank(current_role)
                /\ ADMIN_ALL \notin current_perms
        THEN fail(Resp(403, "Cannot assign a higher role"))
        ELSE IF role_name # NoRole /\ role_name \notin roles
        THEN fail(Resp(404, "Role not found"))
        ELSE IF wanted # {} /\ ADMIN_ALL \notin current_perms /\ missing # {}
        THEN fail([status |-> 403, detail |-> "Cannot grant permissions",
                   names |-> missing])
        ELSE IF wanted # {} /\ unknown # {}
        THEN fail([status |-> 400, detail |-> "Unknown permissions", names |-> unknown])
        ELSE [resp |-> Pass,
              seen |-> acc.seen \cup {project_id},
              upa |-> acc.upa \cup {<<new_user, project_id>>},
              ur |-> acc.ur \cup (IF role_name # NoRole
                                  THEN {<<new_user, role_name, project_id>>}
                                  ELSE {}),
              up |-> acc.up \cup {<<new_user, p, project_id>> : p \in permission_by_name}]

RECURSIVE RegisterLoop(_, _, _, _, _)
RegisterLoop(actor, new_user, assignments, i, acc) ==
    IF i > Len(assignments) \/ acc.resp # Pass
    THEN acc
    ELSE RegisterLoop(actor, new_user, assignments, i + 1,
                      RegisterStep(actor, new_user, assignments[i], acc))

\* RegisterOutcome that commits the rows added before the pass that raised.
RegisterOutcome_PartialCommit(actor, email, assignments) ==
    LET empty == [resp |-> Pass, seen |-> {}, upa |-> {}, ur |-> {}, up |-> {}]
        done == RegisterLoop(actor, email, assignments, 1, empty)
    IN  IF email \in users
        THEN [empty EXCEPT !.resp = Resp(400, "Email already exists")]
        ELSE IF Len(assignments) = 0
        THEN [empty EXCEPT !.resp = Resp(400, "At least one project assignment is required")]
        ELSE IF done.resp # Pass
        THEN done
        ELSE [done EXCEPT !.resp = Resp(201, "created")]

\* The whole handler: the response and the rows its commit persists. email is
\* the user the payload's email names (a registered user or a new one).
RegisterOutcome(actor, email, assignments) ==
    LET empty == [resp |-> Pass, seen |-> {}, upa |-> {}, ur |-> {}, up |-> {}]
        done == RegisterLoop(actor, email, assignments, 1, empty)
    IN  IF email \in users
        THEN [empty EXCEPT !.resp = Resp(400, "Email already exists")]
        ELSE IF Len(assignments) = 0
        THEN [empty EXCEPT !.resp = Resp(400, "At least one project assignment is required")]
        ELSE IF done.resp # Pass
        THEN [empty EXCEPT !.resp = done.resp]
        ELSE [done EXCEPT !.resp = Resp(201, "created")]

RegisterUser(actor, email, assignments) ==
    LET out == RegisterOutcome(actor, email, assignments)
        created == out.resp.status = 201
    IN  /\ nreq < MaxRequests
        /\ users' = IF created THEN users \cup {email} ELSE users
        /\ userProjects' = userProjects \cup out.upa
        /\ userRoles' = userRoles \cup out.ur
        /\ userPerms' = userPerms \cup out.up
        /\ last' = Completed("register_user", out.resp)
        /\ nreq' = nreq + 1
        /\ UNCHANGED <<projects, roles, permissions, rolePerms, threads>>

\* ------------------------------------------------------- POST /projects
\* gate_scope is the project_id the require_project_create gate resolved from
\* the query string or the body (the route has no path parameter).
CreateProjectResponse(actor, gate_scope, owner_found) ==
    IF ~RequirePermission({PROJECT_CREATE}, actor, gate_scope)
    THEN Resp(403, "Permission denied. Required: project:create")
    ELSE IF ~owner_found
    THEN Resp(404, "Owner company not found")
    ELSE Resp(201, "created")

\* The bootstrap-admin grant for the new project.
BootstrapRoleRows(new_project) ==
    IF /\ AdminUser \in users
       /\ "admin" \in roles
       /\ ~\E row \in userRoles : row[1] = AdminUser /\ row[3] = new_project
    THEN {<<AdminUser, "admin", new_project>>}
    ELSE {}

BootstrapPermissionRows(new_project) ==
    IF AdminUser \in users /\ ADMIN_ALL \in permissions
    THEN {<<AdminUser, ADMIN_ALL, new_project>>}
    ELSE {}

CreateProject(actor, gate_scope, owner_found) ==
    LET resp == CreateProjectResponse(actor, gate_scope, owner_found)
        new_project == Cardinality(projects) + 1
    IN  /\ nreq < MaxRequests
        /\ resp.status = 201 => new_project \in ProjectIds
        /\ IF resp.status = 201
           THEN /\ projects' = projects \cup {new_project}
                /\ userProjects' = userProjects \cup {<<actor, new_project>>}
                /\ userRoles' = userRoles \cup BootstrapRoleRows(new_project)
                /\ userPerms' = userPerms \cup BootstrapPermissionRows(new_project)
           ELSE UNCHANGED <<projects, userProjects, userRoles, userPerms>>
        /\ last' = Completed("create_project", resp)
        /\ nreq' = nreq + 1
        /\ UNCHANGED <<users, roles, permissions, rolePerms, threads>>

\* ------------------------------------------------------------- seeding
\* The Role, Permission and RolePermission rows after seed_rbac_data: each
\* default role, permission and edge is added when the lookup finds none.
\* SeedRoles that replaces the Role table by the default roles.
SeedRoles_Reset == DefaultRoleNames

SeedRoles == roles \cup DefaultRoleNames

SeedPermissions == permissions \cup UNION {DEFAULT_ROLES[r] : r \in DefaultRoleNames}

\* SeedRolePermissions that writes the default edges over the table.
SeedRolePermissions_Rebuild ==
    {<<r, p>> \in DefaultRoleNames \X PermissionNames : p \in DEFAULT_ROLES[r]}

SeedRolePermissions ==
    rolePerms \cup
    {<<r, p>> \in DefaultRoleNames \X PermissionNames : p \in DEFAULT_ROLES[r]}

\* seed_rbac_data: every default role, permission and edge that is absent.
SeedRbacData ==
    /\ roles' = SeedRoles
    /\ permissions' = SeedPermissions
    /\ rolePerms' = SeedRolePermissions
    /\ UNCHANGED <<users, projects, userRoles, userPerms, userProjects, threads, last, nreq>>

\* create_initial_user.py: seeds, then gives the ADMIN_EMAIL user the admin
\* role with project_id None unless that row exists.
CreateAdmin ==
    /\ AdminUser \in users
    /\ roles' = SeedRoles
    /\ permissions' = SeedPermissions
    /\ rolePerms' = SeedRolePermissions
    /\ userRoles' = userRoles \cup {<<AdminUser, "admin", NoProject>>}
    /\ UNCHANGED <<users, projects, userPerms, userProjects, threads, last, nreq>>

\* ------------------------------------------------ legacy module app/auth.py
\* The names app/models.py defines, and the attributes of its Permission
\* class and the class of the members of User.roles and Role.permissions.
ModelsAttributes ==
    {"doc_id_seq", "OwnerCompany", "Project", "Document", "User", "UserProjectAssignment",
     "Role", "Permission", "RolePermission", "UserRole", "UserPermission"}

PermissionAttributes == {"id", "name", "resource", "action", "roles", "users"}

UserRolesMemberClass == "UserRole"

PERMISSION_MANAGE_USERS == "manage_users"
PERMISSION_MANAGE_PROJECTS == "manage_projects"
PERMISSION_MANAGE_COMPANIES == "manage_companies"
PERMISSION_UPLOAD_DOCUMENTS == "upload_documents"
PERMISSION_VIEW_DOCUMENTS == "view_documents"
PERMISSION_VERIFY_DOCUMENTS == "verify_documents"

PERMISSION_DEFINITIONS ==
    {PERMISSION_MANAGE_USERS, PERMISSION_MANAGE_PROJECTS, PERMISSION_MANAGE_COMPANIES,
     PERMISSION_UPLOAD_DOCUMENTS, PERMISSION_VIEW_DOCUMENTS, PERMISSION_VERIFY_DOCUMENTS}

ROLE_DEFINITIONS ==
    [r \in {"admin", "manager", "uploader", "viewer"} |->
        CASE r = "admin" -> PERMISSION_DEFINITIONS
          [] r = "manager" -> {PERMISSION_MANAGE_PROJECTS, PERMISSION_MANAGE_COMPANIES,
                               PERMISSION_UPLOAD_DOCUMENTS, PERMISSION_VIEW_DOCUMENTS,
                               PERMISSION_VERIFY_DOCUMENTS}
          [] r = "uploader" -> {PERMISSION_UPLOAD_DOCUMENTS, PERMISSION_VIEW_DOCUMENTS,
                                PERMISSION_VERIFY_DOCUMENTS}
          [] r = "viewer" -> {PERMISSION_VIEW_DOCUMENTS, PERMISSION_VERIFY_DOCUMENTS}]

\* The outcome of a legacy call: the exception it raises ("" when none) and
\* the value it returns.
LegacyOutcome(error, value) == [raised |-> error # "", error |-> error, value |-> value]

\* auth.ensure_default_roles_permissions: reads perm.code of every Permission
\* row, then builds Permission(code=..., description=...) for each code that
\* is missing.
EnsureDefaultRolesPermissions ==
    IF permissions # {} /\ "code" \notin PermissionAttributes
    THEN LegacyOutcome("AttributeError: 'Permission' object has no attribute 'code'", {})
    ELSE IF ~({"code", "description"} \subseteq PermissionAttributes)
    THEN LegacyOutcome("TypeError: 'code' is an invalid keyword argument for Permission", {})
    ELSE LegacyOutcome("", {})

\* auth.assign_role_to_user: looks the role up and appends the Role object to
\* user.roles, whose members are UserRole objects.
LegacyAssignRoleToUser(user, role_name) ==
    IF role_name \notin roles
    THEN LegacyOutcome("ValueError: Role does not exist", {})
    ELSE IF UserRolesMemberClass # "Role"
    THEN LegacyOutcome("Role object appended to a collection of UserRole", {})
    ELSE LegacyOutcome("", {})

\* auth.get_user_permissions: selects Permission.code joined through
\* models.role_permissions and models.user_roles.
LegacyGetUserPermissions(user, held) ==
    IF "code" \notin PermissionAttributes
    THEN LegacyOutcome("AttributeError: type object 'Permission' has no attribute 'code'", {})
    ELSE IF ~({"role_permissions", "user_roles"} \subseteq ModelsAttributes)
    THEN LegacyOutcome("AttributeError: module 'app.models' has no attribute 'role_permissions'", {})
    ELSE LegacyOutcome("", UNION {ROLE_DEFINITIONS[r] : r \in held})

\* test_role_permission_mapping_roundtrip for role r: the three calls in
\* turn; the first exception ends the run.
LegacyRoundTrip(user, r) ==
    LET ensured == EnsureDefaultRolesPermissions
        assigned == LegacyAssignRoleToUser(user, r)
    IN  IF ensured.raised THEN ensured
        ELSE IF assigned.raised THEN assigned
        ELSE LegacyGetUserPermissions(user, {r})

\* ------------------------------------------------------------------- Init

\* ------------------------------------------------- concurrent requests
\* Handlers are plain def functions: each request runs on a worker thread with
\* a session of its own, and the queries of two requests interleave. A
\* request is cut where its handler goes from one group of queries to the
\* next; it sees the rows committed when each group runs.

\* A thread takes up POST .../roles and runs it up to assign_role_to_user.
BeginAssign(t, actor, project_id, user_id, role_name) ==
    LET resp == AssignAuthority(actor, project_id, user_id, role_name)
    IN  /\ threads[t].pc = "idle"
        /\ nreq < MaxRequests
        /\ nreq' = nreq + 1
        /\ IF resp = Pass
           THEN /\ threads' = [threads EXCEPT ![t] =
                        [pc |-> "assign_checks", op |-> "assign_role", actor |-> actor,
                         project_id |-> project_id, user_id |-> user_id,
                         role_name |-> role_name, requested |-> {}]]
                /\ UNCHANGED last
           ELSE /\ last' = Completed("assign_role", resp)
                /\ UNCHANGED threads
        /\ UNCHANGED store

\* assign_role_to_user: the role lookup and the existence checks.
AssignChecks(t) ==
    LET req == threads[t]
        resp == AssignRoleToUserChecks(req.user_id, req.role_name, req.project_id)
    IN  /\ req.pc = "assign_checks"
        /\ IF resp = Pass
           THEN /\ threads' = [threads EXCEPT ![t].pc = "assign_insert"]
                /\ UNCHANGED last
           ELSE /\ last' = Completed("assign_role", resp)
                /\ threads' = [threads EXCEPT ![t] = Idle]
        /\ UNCHANGED <<store, nreq>>

\* assign_role_to_user: the insert and the commit.
AssignInsert(t) ==
    LET req == threads[t]
        resp == AssignRoleInsert(req.user_id, req.role_name, req.project_id)
    IN  /\ req.pc = "assign_insert"
        /\ userRoles' = UserRolesAfterAssign(resp, req.user_id, req.role_name, req.project_id)
        /\ last' = Completed("assign_role", resp)
        /\ threads' = [threads EXCEPT ![t] = Idle]
        /\ UNCHANGED <<users, projects, roles, permissions, rolePerms, userPerms,
                       userProjects, nreq>>

\* A thread takes up PUT .../permissions and runs it up to the grant check.
BeginSetPermissions(t, actor, project_id, user_id, requested) ==
    LET resp == SetPermissionsAuthority(actor, project_id, user_id, requested)
    IN  /\ threads[t].pc = "idle"
        /\ nreq < MaxRequests
        /\ nreq' = nreq + 1
        /\ IF resp = Pass
           THEN /\ threads' = [threads EXCEPT ![t] =
                        [pc |-> "set_write", op |-> "set_permissions", actor |-> actor,
                         project_id |-> project_id, user_id |-> user_id,
                         role_name |-> NoRole, requested |-> requested]]
                /\ UNCHANGED last
           ELSE /\ last' = Completed("set_permissions", resp)
                /\ UNCHANGED threads
        /\ UNCHANGED store

\* The permission lookup, the delete, the inserts and the commit.
SetPermissionsCommit(t) ==
    LET req == threads[t]
        resp == SetPermissionsWrite(req.requested)
    IN  /\ req.pc = "set_write"
        /\ userPerms' = UserPermsAfterSet(resp, req.user_id, req.project_id, req.requested)
        /\ last' = Completed("set_permissions", resp)
        /\ threads' = [threads EXCEPT ![t] = Idle]
        /\ UNCHANGED <<users, projects, roles, permissions, rolePerms, userRoles,
                       userProjects, nreq>>

\* The catalog rows seeding leaves in an empty store, plus the rows of
\* extra_roles (Role rows with names outside ROLE_HIERARCHY).
SeededEdges(role_names) ==
    {<<r, p>> \in role_names \X PermissionNames :
        IF r = CustomRole THEN p \in CustomRolePermissions ELSE p \in DEFAULT_ROLES[r]}

\* Either a fresh database (create_all has made empty tables; the first
\* users are in it) or a deployment in service: seeded at start-up, the
\* bootstrap script run for ADMIN_EMAIL, and a first project on which that
\* user holds what create_project grants the bootstrap admin.
InitFresh ==
    /\ roles = {}
    /\ permissions = {}
    /\ rolePerms = {}
    /\ projects = {}
    /\ userRoles = {}
    /\ userPerms = {}
    /\ userProjects = {}

InitInService ==
    /\ roles \in {DefaultRoleNames, DefaultRoleNames \cup {CustomRole}}
    /\ permissions = PermissionNames
    /\ rolePerms = SeededEdges(roles)
    /\ projects = {1}
    /\ userRoles = {<<AdminUser, "admin", NoProject>>, <<AdminUser, "admin", 1>>}
    /\ userPerms = {<<AdminUser, ADMIN_ALL, 1>>}
    /\ userProjects = {<<AdminUser, 1>>}

\* A deployment in service whose catalog was seeded by a release that did not
\* define document:upload yet: the permission and its edges are not stored,
\* and the seeding at the next start-up is to add them.
InitBeforeUpgrade ==
    /\ roles = DefaultRoleNames
    /\ permissions = PermissionNames \ {DOCUMENT_UPLOAD}
    /\ rolePerms = {e \in SeededEdges(DefaultRoleNames) : e[2] # DOCUMENT_UPLOAD}
    /\ projects = {1}
    /\ userRoles = {<<AdminUser, "admin", NoProject>>, <<AdminUser, "admin", 1>>}
    /\ userPerms = {<<AdminUser, ADMIN_ALL, 1>>}
    /\ userProjects = {<<AdminUser, 1>>}

Init ==
    /\ users = {1, 2}
    /\ InitFresh \/ InitInService \/ InitBeforeUpgrade
    /\ threads = [t \in ThreadIds |-> Idle]
    /\ last = Completed("none", Pass)
    /\ nreq = 0

\* ================================================================ claims
\* The store read row by row, as the claims speak of it.
ScopeIds == ProjectIds \cup {NoProject}
PermissionInputs == PermissionNames \cup {"bogus:perm"}

\* The role names of the UserRole rows of (u, s).
RoleRows(u, s) == {row[2] : row \in {x \in userRoles : x[1] = u /\ x[3] = s}}

\* (u, s) is granted permission p by a role row or by a direct grant row.
Granted(u, p, s) ==
    \/ \E r \in RoleRows(u, s) : <<r, p>> \in rolePerms
    \/ <<u, p, s>> \in userPerms

\* The least rank among the roles of (u, s), which holds at least one.
LeastRank(u, s) ==
    CHOOSE n \in {GetRoleRank(r) : r \in RoleRows(u, s)} :
        \A r \in RoleRows(u, s) : n <= GetRoleRank(r)

\* The failure kinds, as the handlers raise them.
IsPermissionDenied(resp) == resp.status = 403
IsNotFound(resp) == resp.status = 404
IsConflict(resp) ==
    /\ resp.status = 400
    /\ resp.detail \in {"User already has a role for this project", "User already has role"}

\* C1: escalation law for roles. In every reachable state, an actor who holds
\* a role for project P, the highest of rank r, and does not hold admin:all
\* for P, and who asks to assign a role of rank below r, is refused with
\* PermissionDenied and no UserRole row is created; an actor who holds
\* admin:all for P (through a role or a direct grant) is never refused on
\* rank grounds.
C1_EscalationLaw ==
    \A actor \in users, P \in projects, target \in users, role_name \in RoleInputs :
        LET resp == AssignResponse(actor, P, target, role_name)
        IN  /\ ( /\ RoleRows(actor, P) # {}
                 /\ ~Granted(actor, ADMIN_ALL, P)
                 /\ GetRoleRank(role_name) < LeastRank(actor, P) )
               => /\ IsPermissionDenied(resp)
                  /\ UserRolesAfterAssign(resp, target, role_name, P) = userRoles
            /\ Granted(actor, ADMIN_ALL, P)
               => resp.detail # "Cannot assign a higher role"

\* C1 witness: an assignment has just been refused on rank grounds while a
\* user holds the manager role for project 1 without admin:all.
C1_Witness ==
    /\ last.op = "assign_role"
    /\ last.status = 403
    /\ last.detail = "Cannot assign a higher role"
    /\ \E u \in users : RoleRows(u, 1) = {"manager"} /\ ~Granted(u, ADMIN_ALL, 1)


\* The permissions (u, s) is granted, row by row.
GrantedSet(u, s) == {p \in PermissionInputs : Granted(u, p, s)}

C3_OneRolePerScope ==
    \A u \in UserIds, s \in ScopeIds : Cardinality(RoleRows(u, s)) <= 1

\* C3 witness: a registered user holds a role for project 1, project 2 was
\* created with its bootstrap-admin role, and a role has just been assigned.
C3_Witness ==
    /\ \E u \in users \ {1, 2} : RoleRows(u, 1) # {}
    /\ 2 \in projects
    /\ RoleRows(AdminUser, 2) = {"admin"}
    /\ last.op = "assign_role"
    /\ last.status = 200

\* The authority checks of the role-assignment operation admit the actor: it
\* holds role:assign or admin:all for P, holds a role of the hierarchy for P,
\* and the requested role does not outrank that role unless it holds admin:all.
AssignAdmitted(actor, P, role_name) ==
    /\ Granted(actor, ROLE_ASSIGN, P) \/ Granted(actor, ADMIN_ALL, P)
    /\ \E r \in RoleRows(actor, P) : GetRoleRank(r) < Len(ROLE_HIERARCHY)
    /\ GetRoleRank(role_name) >= LeastRank(actor, P) \/ Granted(actor, ADMIN_ALL, P)

\* C4 as first stated: when the target already holds a role for P, assignRole
\* with any role name that exists in storage fails with Conflict and leaves
\* the UserRole rows unchanged.
C4_Original ==
    \A actor \in users, P \in projects, target \in users, role_name \in roles :
        RoleRows(target, P) # {}
        => LET resp == AssignResponse(actor, P, target, role_name)
           IN  /\ IsConflict(resp)
               /\ UserRolesAfterAssign(resp, target, role_name, P) = userRoles

\* C4 as amended: when the target already holds a role for P, assignRole with
\* any role name that exists in storage fails and leaves the UserRole rows
\* unchanged: with Conflict when the authority checks admit the actor, with
\* PermissionDenied when they do not (they come first).
C4_ConflictOnSecond ==
    \A actor \in users, P \in projects, target \in users, role_name \in roles :
        RoleRows(target, P) # {}
        => LET resp == AssignResponse(actor, P, target, role_name)
           IN  /\ AssignAdmitted(actor, P, role_name) => IsConflict(resp)
               /\ ~AssignAdmitted(actor, P, role_name) => IsPermissionDenied(resp)
               /\ UserRolesAfterAssign(resp, target, role_name, P) = userRoles

\* C4 witness: an assignment has just been refused as a conflict for a user
\* other than the bootstrap admin who holds a role for project 1.
C4_Witness ==
    /\ last.op = "assign_role"
    /\ last.status = 400
    /\ last.detail = "User already has a role for this project"
    /\ \E u \in users \ {AdminUser} : RoleRows(u, 1) # {}


\* C5: concurrent assignment race. When two assignRole calls for the same
\* (target, scope) interleave their existence checks and inserts, at most
\* one persists a UserRole row and the other observes Conflict (no other
\* failure), and no reachable state has two roles for one (user, scope).
C5_ConcurrentAssign ==
    /\ \A u \in UserIds, s \in ScopeIds : Cardinality(RoleRows(u, s)) <= 1
    /\ last.op = "assign_role" => last.status \in {200, 403, 404} \/ IsConflict(last)

\* The authority the role-assignment checks require, in the current store.
AssignAuthorityHeld(actor, P, role_name) ==
    /\ \E r \in RoleRows(actor, P) : GetRoleRank(r) < Len(ROLE_HIERARCHY)
    /\ GetRoleRank(role_name) >= LeastRank(actor, P) \/ Granted(actor, ADMIN_ALL, P)

\* The authority the grant check requires, in the current store.
GrantAuthorityHeld(actor, P, requested) ==
    requested \subseteq GrantedSet(actor, P) \/ Granted(actor, ADMIN_ALL, P)

\* C6: atomic check-then-write. In every interleaving, a role or a set of
\* direct grants is persisted only if, in the store at the moment of the
\* write, the actor still has the authority the check required.
C6_AtomicCheckThenWrite ==
    [][\A t \in ThreadIds :
          /\ (threads[t].pc = "assign_insert" /\ threads'[t].pc = "idle"
                /\ userRoles' # userRoles)
             => AssignAuthorityHeld(threads[t].actor, threads[t].project_id,
                                    threads[t].role_name)
          /\ (threads[t].pc = "set_write" /\ threads'[t].pc = "idle"
                /\ last'.status = 200)
             => GrantAuthorityHeld(threads[t].actor, threads[t].project_id,
                                   threads[t].requested)]_vars

\* C7: has(user, permission, scope) is true exactly when admin:all or the
\* permission is in effectivePermissions(user, scope), for every user,
\* permission identifier (known or not) and scope, in every reachable state.
C7_HasIsMembership ==
    \A u \in UserIds, p \in PermissionInputs, s \in ScopeIds :
        HasPermission(u, p, s)
        <=> (ADMIN_ALL \in GetUserPermissions(u, s) \/ p \in GetUserPermissions(u, s))

\* C7 witness: direct grants have just been set and a user with no role for
\* project 1 has a permission there that is not in its effective set, by
\* admin:all alone.
C7_Witness ==
    /\ last.op = "set_permissions"
    /\ last.status = 200
    /\ \E u \in users :
          /\ RoleRows(u, 1) = {}
          /\ GetUserPermissions(u, 1) = {ADMIN_ALL}
          /\ HasPermission(u, "bogus:perm", 1)

\* C8: effectivePermissions(user, scope) is exactly the permissions linked by
\* RolePermission to the roles of rolesOf(user, scope), together with the
\* permissions of the UserPermission rows of (user, scope) when scope is a
\* project; the global scope gets nothing from direct grants.
C8_EffectiveIsUnion ==
    \A u \in UserIds, s \in ScopeIds :
        /\ GetUserPermissions(u, s) =
              {p \in PermissionInputs :
                  \/ \E r \in GetUserRoles(u, s) : <<r, p>> \in rolePerms
                  \/ s # NoProject /\ <<u, p, s>> \in userPerms}
        /\ GetUserPermissions(u, NoProject) =
              {p \in PermissionInputs :
                  \E r \in GetUserRoles(u, NoProject) : <<r, p>> \in rolePerms}

\* C8 witness: a user holds the viewer role for project 1 and a direct grant
\* of user:manage there, which the role does not carry.
C8_Witness ==
    \E u \in users :
        /\ RoleRows(u, 1) = {"viewer"}
        /\ <<u, USER_MANAGE, 1>> \in userPerms
        /\ GetUserPermissions(u, 1) = {DOCUMENT_READ, USER_MANAGE}

\* C9: highestRole(user, scope) is a role of rolesOf(user, scope) of least
\* rank, and is none exactly when rolesOf(user, scope) is empty, also when
\* the roles held have names outside the hierarchy.
C9_HighestRole ==
    \A u \in UserIds, s \in ScopeIds :
        LET held == GetUserRoles(u, s)
            highest == GetUserHighestRole(u, s)
        IN  /\ highest = NoRole <=> held = {}
            /\ highest # NoRole
               => /\ highest \in held
                  /\ \A r \in held : GetRoleRank(highest) <= GetRoleRank(r)

\* C10: rolesOf(user, global) is exactly the roles assigned to the user with
\* the global scope.
C10_GlobalRoles ==
    \A u \in UserIds : GetUserRoles(u, NoProject) = RoleRows(u, NoProject)

\* The UserRole and UserPermission rows whose scope is s.
RoleRowsOfScope(s) == {row \in userRoles : row[3] = s}
GrantRowsOfScope(s) == {row \in userPerms : row[3] = s}

\* C11: project isolation. Across every step that adds or deletes UserRole or
\* UserPermission rows of other projects or of the global scope (roles,
\* direct grants, admin:all among them) and leaves the catalog and the rows of
\* project B as they were, rolesOf, effectivePermissions and has give the same
\* answers for (user, B) after the step as before it.
C11_ProjectIsolation ==
    [][\A B \in ProjectIds :
          ( /\ userRoles' # userRoles \/ userPerms' # userPerms
            /\ RoleRowsOfScope(B)' = RoleRowsOfScope(B)
            /\ GrantRowsOfScope(B)' = GrantRowsOfScope(B)
            /\ <<roles, permissions, rolePerms>>' = <<roles, permissions, rolePerms>> )
          => \A u \in UserIds :
                /\ GetUserRoles(u, B)' = GetUserRoles(u, B)
                /\ GetUserPermissions(u, B)' = GetUserPermissions(u, B)
                /\ \A p \in PermissionInputs :
                      HasPermission(u, p, B)' = HasPermission(u, p, B)]_vars

\* C11 witness: direct grants have just been set, and a user who holds
\* admin:all for project 2 holds no role and no permission for project 1,
\* where the resolver denies it document:read.
C11_Witness ==
    /\ last.op = "set_permissions"
    /\ last.status = 200
    /\ \E u \in users :
          /\ Granted(u, ADMIN_ALL, 2)
          /\ GetUserRoles(u, 1) = {}
          /\ GetUserPermissions(u, 1) = {}
          /\ ~HasPermission(u, DOCUMENT_READ, 1)
          /\ HasPermission(u, DOCUMENT_READ, 2)

\* C12: no stale answers. In every interleaving, right after a step that
\* commits a change of UserRole or UserPermission rows, effectivePermissions,
\* has and highestRole for every (user, project) are what the rows of the
\* store after that step give; and a request is let through the authority
\* checks of assignRole or setDirectPermissions only if the rows of the store
\* at that moment, every committed change included, give the actor that
\* authority.
C12_NoStaleAnswers ==
    [][/\ (userRoles' # userRoles \/ userPerms' # userPerms)
          => \A u \in UserIds, s \in ProjectIds :
                /\ GetUserPermissions(u, s)' = GrantedSet(u, s)'
                /\ \A p \in PermissionInputs :
                      HasPermission(u, p, s)' = (Granted(u, ADMIN_ALL, s) \/ Granted(u, p, s))'
                /\ GetUserHighestRole(u, s)' \in (RoleRows(u, s) \cup {NoRole})'
                /\ (\E r \in RoleRows(u, s) : GetRoleRank(r) < Len(ROLE_HIERARCHY))'
                   => GetRoleRank(GetUserHighestRole(u, s))' = LeastRank(u, s)'
                /\ (RoleRows(u, s) = {})' => GetUserHighestRole(u, s)' = NoRole
       /\ \A t \in ThreadIds :
             /\ (threads[t].pc = "idle" /\ threads'[t].pc = "assign_checks")
                => AssignAdmitted(threads'[t].actor, threads'[t].project_id,
                                  threads'[t].role_name)
             /\ (threads[t].pc = "idle" /\ threads'[t].pc = "set_write")
                => /\ \/ Granted(threads'[t].actor, USER_MANAGE, threads'[t].project_id)
                      \/ Granted(threads'[t].actor, ADMIN_ALL, threads'[t].project_id)
                   /\ GrantAuthorityHeld(threads'[t].actor, threads'[t].project_id,
                                         threads'[t].requested)]_vars

\* C12 witness: user 2, who held nothing at start-up, holds the manager role
\* for project 1 by a committed assignment, and a request of user 2 has been
\* let through the authority checks of assignRole on the strength of it.
C12_Witness ==
    /\ RoleRows(2, 1) = {"manager"}
    /\ \E t \in ThreadIds :
          /\ threads[t].pc = "assign_checks"
          /\ threads[t].actor = 2
          /\ threads[t].project_id = 1

\* The failure conditions of assignRole, row by row.
RoleUnknown(role_name) == role_name \notin roles
TargetHoldsRole(target, P) == RoleRows(target, P) # {}
ActorWithoutRole(actor, P) == GetUserHighestRole(actor, P) = NoRole
RoleOutranksActor(actor, P, role_name) ==
    /\ GetRoleRank(role_name) < GetRoleRank(GetUserHighestRole(actor, P))
    /\ ~Granted(actor, ADMIN_ALL, P)

\* C13 as first stated: the checks of assignRole are applied in the order
\* NotFound (unknown role name), Conflict (target holds a role for the scope),
\* PermissionDenied (actor holds no role), PermissionDenied (role outranks
\* the actor without admin:all), and the first failure in that order is the
\* one reported.
C13_Original ==
    \A actor \in users, P \in projects, target \in users, role_name \in RoleInputs :
        LET resp == AssignResponse(actor, P, target, role_name)
        IN  IF RoleUnknown(role_name) THEN IsNotFound(resp)
            ELSE IF TargetHoldsRole(target, P) THEN IsConflict(resp)
            ELSE IF ActorWithoutRole(actor, P) THEN IsPermissionDenied(resp)
            ELSE IF RoleOutranksActor(actor, P, role_name) THEN IsPermissionDenied(resp)
            ELSE TRUE

\* C13 as amended: the checks are applied in the order PermissionDenied
\* (actor holds neither role:assign nor admin:all for the scope),
\* PermissionDenied (highestRole of the actor is none), PermissionDenied
\* (role outranks the actor without admin:all), NotFound (unknown role name),
\* Conflict (target holds a role for the scope); the first failure in that
\* order is the one reported, and the call succeeds when none holds.
C13_CheckOrder ==
    \A actor \in users, P \in projects, target \in users, role_name \in RoleInputs :
        LET resp == AssignResponse(actor, P, target, role_name)
        IN  IF ~(Granted(actor, ROLE_ASSIGN, P) \/ Granted(actor, ADMIN_ALL, P))
            THEN IsPermissionDenied(resp)
                 /\ resp.detail = "Permission denied. Required: role:assign"
            ELSE IF ActorWithoutRole(actor, P)
            THEN IsPermissionDenied(resp)
                 /\ resp.detail = "Cannot assign role without a project role"
            ELSE IF RoleOutranksActor(actor, P, role_name)
            THEN IsPermissionDenied(resp) /\ resp.detail = "Cannot assign a higher role"
            ELSE IF RoleUnknown(role_name)
            THEN IsNotFound(resp) /\ resp.detail = "Role not found"
            ELSE IF TargetHoldsRole(target, P)
            THEN IsConflict(resp)
            ELSE resp.status = 200

\* C13 witness: an assignment has just been refused on rank grounds while
\* every user holds a role for project 1: the request named a role that
\* outranks the actor and a target that holds a role, and was reported as
\* PermissionDenied, not as Conflict.
C13_Witness ==
    /\ last.op = "assign_role"
    /\ last.detail = "Cannot assign a higher role"
    /\ users = {1, 2}
    /\ \A u \in users : RoleRows(u, 1) # {}
    /\ \A target \in users : TargetHoldsRole(target, 1)

\* C14: no standing, no grant. assignRole by an actor with no UserRole row
\* for P fails with PermissionDenied and creates no row, also when the actor
\* holds admin:all for P by a direct grant alone; an actor with a UserRole
\* row for P is never refused for lack of standing.
C14_NoStandingNoGrant ==
    \A actor \in users, P \in projects, target \in users, role_name \in RoleInputs :
        LET resp == AssignResponse(actor, P, target, role_name)
        IN  /\ RoleRows(actor, P) = {}
               => /\ IsPermissionDenied(resp)
                  /\ UserRolesAfterAssign(resp, target, role_name, P) = userRoles
            /\ RoleRows(actor, P) # {}
               => resp.detail # "Cannot assign role without a project role"

\* The requested identifiers that are not Permission rows.
UnknownRequested(requested) == {p \in requested : p \notin permissions}

\* A ValidationError, as the handler raises it.
IsValidationError(resp) == resp.status = 400 /\ resp.detail = "Unknown permissions"

\* C15 as first stated: setDirectPermissions fails with ValidationError
\* whenever a requested identifier is not a known Permission, for every
\* actor, and the direct grants of (target, scope) are unchanged.
C15_Original ==
    \A actor \in users, P \in projects, target \in users, requested \in RequestedInputs :
        UnknownRequested(requested) # {}
        => LET resp == SetPermissionsResponse(actor, P, target, requested)
           IN  /\ IsValidationError(resp)
               /\ UserPermsAfterSet(resp, target, P, requested) = userPerms

\* C15 as amended: whenever a requested identifier is not a known Permission,
\* setDirectPermissions fails and leaves the direct grants unchanged: with
\* ValidationError naming the unknown identifiers for an actor who holds
\* admin:all for the scope, with PermissionDenied for every other actor (the
\* authority checks come first, and no actor holds an unknown permission).
C15_UnknownPermission ==
    \A actor \in users, P \in projects, target \in users, requested \in RequestedInputs :
        UnknownRequested(requested) # {}
        => LET resp == SetPermissionsResponse(actor, P, target, requested)
           IN  /\ Granted(actor, ADMIN_ALL, P)
                  => IsValidationError(resp) /\ resp.names = UnknownRequested(requested)
               /\ ~Granted(actor, ADMIN_ALL, P) => IsPermissionDenied(resp)
               /\ UserPermsAfterSet(resp, target, P, requested) = userPerms

\* C15 witness: a request has just been refused as naming the unknown
\* identifier bogus:perm, in a store with direct grants to leave untouched.
C15_Witness ==
    /\ last.op = "set_permissions"
    /\ IsValidationError(last)
    /\ last.names = {"bogus:perm"}
    /\ userPerms # {}

\* The permissions of the UserPermission rows of (u, s).
DirectGrants(u, s) == {row[2] : row \in {x \in userPerms : x[1] = u /\ x[3] = s}}

\* C16: setDirectPermissions is a full overwrite. Across every step in which
\* the call for (target, P, requested) succeeds, the direct grants of
\* (target, P) after the step are exactly the requested set, the direct
\* grants of every other (user, project) and all UserRole rows are as before,
\* and the same call made again in the store after the step leaves that
\* store as it is.
C16_FullOverwrite ==
    [][(last'.op = "set_permissions" /\ last'.status = 200 /\ nreq' # nreq)
       => \A actor \in users, P \in ProjectIds, target \in UserIds,
             requested \in RequestedInputs :
          SetUserPermissionsForProject(actor, P, target, requested)
          => /\ DirectGrants(target, P)' = requested
             /\ \A u \in UserIds, s \in ProjectIds :
                   <<u, s>> # <<target, P>> => DirectGrants(u, s)' = DirectGrants(u, s)
             /\ {row \in userPerms' : row[3] \notin ProjectIds} = {}
             /\ userRoles' = userRoles
             /\ UserPermsAfterSet(SetPermissionsResponse(actor, P, target, requested),
                                  target, P, requested)' = userPerms']_vars

\* C16 witness: direct grants have just been set with success and the store
\* of a project in service holds no direct grant: an empty request has taken
\* away the grant that was held.
C16_Witness ==
    /\ last.op = "set_permissions"
    /\ last.status = 200
    /\ 1 \in projects
    /\ userPerms = {}

\* C17: removeRole(actor, target, roleName, P) returns true exactly when the
\* UserRole row (target, roleName, P) exists before the call; a call that
\* returns true deletes that row and nothing else, and a call that returns
\* false (unknown role name, another role or none held for P) leaves the
\* store unchanged.
C17_RemoveExactRow ==
    [][(last'.op = "remove_role" /\ nreq' # nreq)
       => /\ \A u \in UserIds, r \in RoleInputs, s \in ProjectIds :
                RemoveRoleFromUser(u, r, s) = (<<u, r, s>> \in userRoles)
          /\ \A actor \in users, P \in ProjectIds, target \in UserIds,
                role_name \in RoleInputs :
                RemoveUserRoleFromProject(actor, P, target, role_name)
                => /\ last'.status = 200
                      => /\ <<target, role_name, P>> \in userRoles
                         /\ userRoles' = userRoles \ {<<target, role_name, P>>}
                   /\ last'.status # 200 => userRoles' = userRoles
                   /\ <<users, projects, roles, permissions, rolePerms, userPerms,
                        userProjects>>'
                         = <<users, projects, roles, permissions, rolePerms, userPerms,
                             userProjects>>]_vars

\* C17 witness: a role has just been removed with success and the admin role
\* the bootstrap admin held for project 1 is gone, its global role and its
\* direct grant still there.
C17_Witness ==
    /\ last.op = "remove_role"
    /\ last.status = 200
    /\ 1 \in projects
    /\ <<AdminUser, "admin", 1>> \notin userRoles
    /\ <<AdminUser, "admin", NoProject>> \in userRoles
    /\ <<AdminUser, ADMIN_ALL, 1>> \in userPerms

\* C18: removeRole compares no ranks. Every actor who holds role:assign or
\* admin:all for project P removes with success any existing role assignment
\* of any other user in P, a role that outranks the actor's own highest role
\* included, and the row is deleted.
C18_RemoveUnranked ==
    \A actor \in users, P \in projects, target \in UserIds, role_name \in RoleInputs :
        ( /\ target # actor
          /\ Granted(actor, ROLE_ASSIGN, P) \/ Granted(actor, ADMIN_ALL, P)
          /\ <<target, role_name, P>> \in userRoles )
        => LET resp == RemoveResponse(actor, P, target, role_name)
           IN  /\ resp.status = 200
               /\ UserRolesAfterRemove(resp, target, role_name, P)
                     = userRoles \ {<<target, role_name, P>>}

\* C18 witness: a role has just been removed with success, the bootstrap
\* admin no longer holds the admin role for project 1, and another user
\* holds the manager role there without admin:all.
C18_Witness ==
    /\ last.op = "remove_role"
    /\ last.status = 200
    /\ RoleRows(AdminUser, 1) = {}
    /\ \E u \in users \ {AdminUser} :
          /\ RoleRows(u, 1) = {"manager"}
          /\ ~Granted(u, ADMIN_ALL, 1)

\* C19: role slot state machine. For every (user, scope), each step of the
\* system leaves the slot as it is, or takes it from unassigned to one
\* assigned role, or from one assigned role to unassigned; a held role is
\* never replaced in place and never joined by a second one.
C19_RoleSlot ==
    [][(userRoles' # userRoles)
       => \A u \in UserIds, s \in ScopeIds :
             \/ RoleRows(u, s)' = RoleRows(u, s)
             \/ RoleRows(u, s) = {} /\ Cardinality(RoleRows(u, s)') = 1
             \/ Cardinality(RoleRows(u, s)) = 1 /\ RoleRows(u, s)' = {}]_vars

\* The catalog holds every default role, permission and edge.
CatalogSeeded ==
    /\ DefaultRoleNames \subseteq roles
    /\ UNION {DEFAULT_ROLES[r] : r \in DefaultRoleNames} \subseteq permissions
    /\ \A r \in DefaultRoleNames : \A p \in DEFAULT_ROLES[r] : <<r, p>> \in rolePerms

\* C20: seeding is idempotent. Across every seed step: on a catalog that
\* already holds the default rows no Role, Permission or RolePermission row
\* is added or removed; no row is ever removed; after the step the catalog
\* holds the default rows, and the default roles carry exactly their default
\* edges; a second seed run in the store after the step would leave the
\* three tables as they are; the user assignments are untouched.
C20_SeedIdempotent ==
    [][SeedRbacData
       => /\ CatalogSeeded
             => <<roles, permissions, rolePerms>>' = <<roles, permissions, rolePerms>>
          /\ roles \subseteq roles'
          /\ permissions \subseteq permissions'
          /\ rolePerms \subseteq rolePerms'
          /\ CatalogSeeded'
          /\ \A r \in DefaultRoleNames : RolePermissionNames(r)' = DEFAULT_ROLES[r]
          /\ SeedRoles' = roles'
          /\ SeedPermissions' = permissions'
          /\ SeedRolePermissions' = rolePerms'
          /\ <<users, projects, userRoles, userPerms, userProjects>>'
                = <<users, projects, userRoles, userPerms, userProjects>>]_vars

\* C20 witness: a store that was empty holds exactly the default catalog and
\* nothing else: seeding has run on it.
C20_Witness ==
    /\ roles = DefaultRoleNames
    /\ permissions = PermissionNames
    /\ rolePerms = SeededEdges(DefaultRoleNames)
    /\ projects = {}
    /\ userRoles = {}
    /\ userPerms = {}

\* C21: seeding frame. Across every seed step no UserRole and no
\* UserPermission row is added, deleted or altered, no Role, Permission or
\* RolePermission row is deleted, a role that exists keeps its name, and the
\* effective permissions of every user for every scope after the step
\* include those held before it.
C21_SeedFrame ==
    [][SeedRbacData
       => /\ userRoles' = userRoles
          /\ userPerms' = userPerms
          /\ roles \subseteq roles'
          /\ permissions \subseteq permissions'
          /\ rolePerms \subseteq rolePerms'
          /\ \A u \in UserIds, s \in ScopeIds :
                /\ GetUserRoles(u, s) \subseteq GetUserRoles(u, s)'
                /\ GetUserPermissions(u, s) \subseteq GetUserPermissions(u, s)']_vars

\* C21 witness: document:upload, which the catalog did not hold at start-up,
\* has been seeded into a store in service, and a user who has been given
\* the uploader role for project 1 holds the permission by it.
C21_Witness ==
    /\ DOCUMENT_UPLOAD \in permissions
    /\ \E u \in users :
          /\ RoleRows(u, 1) = {"uploader"}
          /\ GetUserPermissions(u, 1) = {DOCUMENT_READ, DOCUMENT_UPLOAD}
    /\ \E u \in users : DirectGrants(u, 1) = {DOCUMENT_READ}

\* C22: legacy role-permission round trip. After
\* ensure_default_roles_permissions, for every default role r and every user
\* holding no role, assign_role_to_user followed by get_user_permissions
\* returns exactly the permission codes of ROLE_DEFINITIONS[r] (a viewer gets
\* view_documents and not manage_users).
C22_LegacyRoundTrip ==
    \A u \in users, r \in DOMAIN ROLE_DEFINITIONS :
        (\A s \in ScopeIds : RoleRows(u, s) = {})
        => LET out == LegacyRoundTrip(u, r)
           IN  /\ ~out.raised
               /\ out.value = ROLE_DEFINITIONS[r]
               /\ r = "viewer" => /\ PERMISSION_VIEW_DOCUMENTS \in out.value
                                  /\ PERMISSION_MANAGE_USERS \notin out.value

\* The permission lists a gate may be built with: one or two names.
GateInputs == {S \in SUBSET PermissionInputs : Cardinality(S) \in {1, 2}}

\* C23: the permission gates decide as the has primitive does. In every
\* reachable state, for every user, every scope a gate may resolve and every
\* list p1..pn of permissions, require_permission admits the user exactly
\* when has(user, pi, scope) holds for at least one i, and
\* require_all_permissions admits the user exactly when it holds for every i.
C23_GatesAgreeWithHas ==
    \A u \in UserIds, s \in ScopeIds, required \in GateInputs :
        /\ RequirePermission(required, u, s)
              <=> \E p \in required : HasPermission(u, p, s)
        /\ RequireAllPermissions(required, u, s)
              <=> \A p \in required : HasPermission(u, p, s)

\* C23 witness: the role:assign gate has just refused a request while a user
\* holds the uploader role alone for project 1, so that a gate built with
\* document:read and role:assign finds one permission held and one missing.
C23_Witness ==
    /\ last.op = "assign_role"
    /\ last.status = 403
    /\ last.detail = "Permission denied. Required: role:assign"
    /\ \E u \in users :
          /\ RoleRows(u, 1) = {"uploader"}
          /\ DirectGrants(u, 1) = {}
          /\ RequirePermission({DOCUMENT_READ, ROLE_ASSIGN}, u, 1)
          /\ ~RequireAllPermissions({DOCUMENT_READ, ROLE_ASSIGN}, u, 1)

\* The role names rank may be asked about: the stored ones, the ones a
\* request may carry, and the absent role (none or the empty string).
RankInputs == roles \cup RoleInputs \cup {NoRole, ""}

\* C24: rank(name) is the zero-based position of name in the hierarchy
\* [admin, manager, uploader, viewer], and the sentinel 4 for every name
\* outside the list and for the absent role; rank stays within 0..4, and of
\* two stored hierarchy roles the one of lower rank holds every permission of
\* the other.
C24_RankTable ==
    /\ GetRoleRank("admin") = 0
    /\ GetRoleRank("manager") = 1
    /\ GetRoleRank("uploader") = 2
    /\ GetRoleRank("viewer") = 3
    /\ \A name \in RankInputs \ {"admin", "manager", "uploader", "viewer"} :
          GetRoleRank(name) = 4
    /\ \A name \in RankInputs : GetRoleRank(name) \in 0..4
    /\ \A a \in roles, b \in roles :
          (GetRoleRank(a) < GetRoleRank(b) /\ GetRoleRank(b) < 4)
             => RolePermissionNames(b) \subseteq RolePermissionNames(a)

\* C24 witness: a role outside the hierarchy has just been assigned, so the
\* rank comparison of the handler ran on the sentinel, while the four
\* hierarchy roles are stored with their bundles.
C24_Witness ==
    /\ last.op = "assign_role"
    /\ last.status = 200
    /\ \E u \in users : RoleRows(u, 1) = {CustomRole}
    /\ {"admin", "manager", "uploader", "viewer"} \subseteq roles
    /\ RolePermissionNames("viewer") # RolePermissionNames("uploader")

\* The first value present among the path parameter, the query parameter and
\* the body field, in that order.
FirstPresent(path, query, body) ==
    IF path # Absent
    THEN ReadSource(path)
    ELSE IF query # Absent
    THEN ReadSource(query)
    ELSE ReadSource(body)

\* The raw values a request may carry as project_id: none, a garbled one, or
\* the numeral of a stored project.
ScopeValues == {raw \in RawInputs : raw \in DOMAIN IntOf => IntOf[raw] \in projects}

\* C25: scope resolution precedence in the gates. For every request, both
\* require_permission and require_all_permissions resolve the project scope
\* as the first value present among the path parameter, the query parameter
\* and the body field project_id, in that order, and the scope is none only
\* when all three are absent.
C25_ScopePrecedence ==
    \A method \in MethodInputs, path \in ScopeValues, query \in ScopeValues,
       body \in ScopeValues :
        LET any_scope == RequirePermissionScope(method, path, query, body)
            all_scope == RequireAllPermissionsScope(method, path, query, body)
        IN  /\ any_scope = FirstPresent(path, query, body)
            /\ all_scope = FirstPresent(path, query, body)
            /\ (any_scope = NoneScope \/ all_scope = NoneScope)
                  => (path = Absent /\ query = Absent /\ body = Absent)

\* The store holds the four default roles alone, with their seeded bundles.
DefaultCatalogOnly ==
    /\ roles = DefaultRoleNames
    /\ permissions = PermissionNames
    /\ rolePerms = SeededEdges(DefaultRoleNames)

\* C26: role assignment never escalates permissions with the default
\* catalog. In every reachable state whose catalog is the four default roles
\* with their seeded bundles, every assignRole that succeeds for an actor
\* lacking admin:all for P persists a role whose permission bundle is a subset
\* of the actor's effective permissions for P at that time.
C26_NoEscalationByRole ==
    DefaultCatalogOnly
    => \A actor \in users, P \in projects, target \in users, role_name \in RoleInputs :
          LET resp == AssignResponse(actor, P, target, role_name)
          IN  (resp.status = 200 /\ ~Granted(actor, ADMIN_ALL, P))
              => /\ <<target, role_name, P>>
                       \in UserRolesAfterAssign(resp, target, role_name, P)
                 /\ RolePermissionNames(role_name) \subseteq GetUserPermissions(actor, P)

\* C26 witness: with the default catalog, a role below admin has just been
\* assigned for project 1 while another user holds the manager role for that
\* project without admin:all.
C26_Witness ==
    /\ DefaultCatalogOnly
    /\ last.op = "assign_role"
    /\ last.status = 200
    /\ \E a \in users, t \in users :
          /\ a # t
          /\ RoleRows(a, 1) = {"manager"}
          /\ ~Granted(a, ADMIN_ALL, 1)
          /\ RoleRows(t, 1) \in {{"manager"}, {"uploader"}, {"viewer"}}
          /\ AssignResponse(a, 1, t, "admin").detail = "Cannot assign a higher role"

\* The users a registration may create: the ids that are no User row yet.
NewUserIds == UserIds \ users

\* C27: register_user applies the escalation guards to every project
\* assignment of the new user. In every reachable state, for every
\* registration that is committed: a role for project P is among its rows
\* only if the actor has user:create or admin:all for P, holds a role for P,
\* and either the role's rank is not below the rank of the actor's highest
\* role or the actor holds admin:all for P; direct grants for P are among its
\* rows only if every one of them is an effective permission of the actor
\* for P or the actor holds admin:all for P.
C27_RegisterGuards ==
    \A actor \in users, email \in NewUserIds, assignments \in AssignmentLists :
        LET out == RegisterOutcome(actor, email, assignments)
        IN  out.resp.status = 201
            => /\ \A row \in out.ur :
                    /\ row[1] = email
                    /\ Granted(actor, USER_CREATE, row[3]) \/ Granted(actor, ADMIN_ALL, row[3])
                    /\ RoleRows(actor, row[3]) # {}
                    /\ \/ GetRoleRank(row[2]) >= LeastRank(actor, row[3])
                       \/ Granted(actor, ADMIN_ALL, row[3])
               /\ \A row \in out.up :
                    /\ row[1] = email
                    /\ Granted(actor, USER_CREATE, row[3]) \/ Granted(actor, ADMIN_ALL, row[3])
                    /\ \/ {g[2] : g \in {x \in out.up : x[3] = row[3]}}
                             \subseteq GetUserPermissions(actor, row[3])
                       \/ Granted(actor, ADMIN_ALL, row[3])

\* C27 witness: a registration has just been committed that gave the new user
\* the manager role for project 1, while a user holds for that project the
\* manager role and a direct grant of user:create, without admin:all.
C27_Witness ==
    /\ last.op = "register_user"
    /\ last.status = 201
    /\ users = UserIds
    /\ RoleRows(3, 1) = {"manager"}
    /\ \E a \in users \ {3} :
          /\ RoleRows(a, 1) = {"manager"}
          /\ DirectGrants(a, 1) = {USER_CREATE}
          /\ ~Granted(a, ADMIN_ALL, 1)

\* The rows of user u: its User row and every assignment row that names it.
RowsOfUser(u) ==
    <<u \in users,
      {x \in userProjects : x[1] = u},
      {x \in userRoles : x[1] = u},
      {x \in userPerms : x[1] = u}>>

\* C28: register_user is all-or-nothing. Across every registration that ends
\* with a failure, whichever check failed and for whichever assignment of the
\* request, no User, UserProjectAssignment, UserRole or UserPermission row is
\* persisted, the rows of earlier assignments of the request included.
C28_RegisterAllOrNothing ==
    [][(last'.op = "register_user" /\ nreq' # nreq /\ last'.status # 201)
          => /\ users' = users
             /\ userProjects' = userProjects
             /\ userRoles' = userRoles
             /\ userPerms' = userPerms]_vars

\* C28 witness: a registration has just failed at its second assignment, a
\* duplicate of the project of the first, which had passed every check; the
\* user it named has no row.
C28_Witness ==
    /\ last.op = "register_user"
    /\ last.status = 400
    /\ last.detail = "Duplicate project assignment is not allowed"
    /\ \E u \in NewUserIds : RowsOfUser(u) = <<FALSE, {}, {}, {}>>
    /\ \E actor \in users, email \in NewUserIds, a \in AssignmentInputs :
          /\ RegisterOutcome(actor, email, <<a>>).resp.status = 201
          /\ RegisterOutcome(actor, email, <<a, a>>).resp = Resp(last.status, last.detail)

\* C29: revocation through overwrite is unchecked. In every reachable state,
\* for every actor who holds user:manage or admin:all for a stored project P
\* and every stored target: setDirectPermissions with the empty set succeeds
\* and leaves the target with no direct grant for P, whatever grants the
\* target held, admin:all and others the actor lacks included; and every
\* request that succeeds leaves the target with the requested grants alone.
C29_RevocationUnchecked ==
    \A actor \in users, P \in projects, target \in users :
        /\ (Granted(actor, USER_MANAGE, P) \/ Granted(actor, ADMIN_ALL, P))
           => LET resp == SetPermissionsResponse(actor, P, target, {})
                  after == UserPermsAfterSet(resp, target, P, {})
              IN  /\ resp.status = 200
                  /\ after = {row \in userPerms : ~(row[1] = target /\ row[3] = P)}
        /\ \A requested \in RequestedInputs :
              LET resp == SetPermissionsResponse(actor, P, target, requested)
                  after == UserPermsAfterSet(resp, target, P, requested)
              IN  resp.status = 200
                  => {row[2] : row \in {x \in after : x[1] = target /\ x[3] = P}}
                        = requested

\* C29 witness: an overwrite has just succeeded, the bootstrap admin no longer
\* holds the direct grant of admin:all it had for project 1, and a user holds
\* for that project a direct grant of user:manage and no admin:all: it may
\* not grant admin:all, and may overwrite the grants of anyone.
C29_Witness ==
    /\ last.op = "set_permissions"
    /\ last.status = 200
    /\ DirectGrants(AdminUser, 1) = {}
    /\ RoleRows(AdminUser, 1) = {"admin"}
    /\ \E a \in users \ {AdminUser} :
          /\ DirectGrants(a, 1) = {USER_MANAGE}
          /\ ~Granted(a, ADMIN_ALL, 1)
          /\ SetPermissionsResponse(a, 1, AdminUser, {ADMIN_ALL}).status = 403

\* C30: the guard never touches the global scope. In every reachable state,
\* assign_role_to_user called with no project scope fails with the 400
\* validation error and remove_role_from_user called with no project scope
\* returns false, for every user and role name, and the UserRole rows stay as
\* they are; and across every step of a guard operation the UserRole rows of
\* the global scope are unchanged.
C30_GuardLeavesGlobalScope ==
    [][/\ \A u \in UserIds, r \in RoleInputs :
             LET checks == AssignRoleToUserChecks(u, r, NoProject)
                 resp == IF checks = Pass THEN AssignRoleInsert(u, r, NoProject) ELSE checks
                 removed == RemoveRoleFromUser(u, r, NoProject)
             IN  /\ resp = Resp(400, "project_id is required for role assignment")
                 /\ UserRolesAfterAssign(resp, u, r, NoProject) = userRoles
                 /\ ~removed
                 /\ (IF removed THEN userRoles \ {<<u, r, NoProject>>} ELSE userRoles)
                       = userRoles
       /\ (last'.op \in {"assign_role", "remove_role"} /\ nreq' # nreq)
             => RoleRowsOfScope(NoProject)' = RoleRowsOfScope(NoProject)]_vars

\* C30 witness: the admin role of the bootstrap admin for project 1 has just
\* been removed, and the row of the same user and role with the global scope
\* is still stored.
C30_Witness ==
    /\ last.op = "remove_role"
    /\ last.status = 200
    /\ RoleRows(AdminUser, 1) = {}
    /\ <<AdminUser, "admin", NoProject>> \in userRoles
    /\ ~RemoveRoleFromUser(AdminUser, "admin", NoProject)

Next ==
    \/ \E actor \in users, project_id \in ProjectIds, user_id \in UserIds,
          role_name \in RoleInputs :
            AssignUserRoleToProject(actor, project_id, user_id, role_name)
    \/ \E actor \in users, project_id \in ProjectIds, user_id \in UserIds,
          role_name \in RoleInputs :
            RemoveUserRoleFromProject(actor, project_id, user_id, role_name)
    \/ \E actor \in users, project_id \in ProjectIds, user_id \in UserIds,
          requested \in RequestedInputs :
            SetUserPermissionsForProject(actor, project_id, user_id, requested)
    \/ \E actor \in users, email \in UserIds,
          assignments \in AssignmentLists :
            RegisterUser(actor, email, assignments)
    \/ \E actor \in users, gate_scope \in projects \cup {NoProject},
          owner_found \in BOOLEAN :
            CreateProject(actor, gate_scope, owner_found)
    \/ SeedRbacData
    \/ CreateAdmin

Spec == Init /\ [][Next]_vars

NextConc ==
    \/ \E t \in ThreadIds, actor \in users, project_id \in ProjectIds,
          user_id \in UserIds, role_name \in RoleInputs :
            BeginAssign(t, actor, project_id, user_id, role_name)
    \/ \E t \in ThreadIds : AssignChecks(t)
    \/ \E t \in ThreadIds : AssignInsert(t)
    \/ \E t \in ThreadIds, actor \in users, project_id \in ProjectIds,
          user_id \in UserIds, requested \in RequestedInputs :
            BeginSetPermissions(t, actor, project_id, user_id, requested)
    \/ \E t \in ThreadIds : SetPermissionsCommit(t)
    \/ \E actor \in users, project_id \in ProjectIds, user_id \in UserIds,
          role_name \in RoleInputs :
            RemoveUserRoleFromProject(actor, project_id, user_id, role_name)

SpecConc == Init /\ [][NextConc]_vars

====
